---- MODULE Spec2Model ----
(***************************************************************************)
(* Model of dig/auggraph/runner_discriminator.py: RunnerDiscriminator,     *)
(* its constructor, _train_epoch, test and train_test, together with the   *)
(* part of the file system (directories, log file, checkpoint files) the   *)
(* runner touches.                                                         *)
(*                                                                         *)
(* Conventions                                                             *)
(*  - A path is a sequence of components, a component is a sequence of     *)
(*    string pieces (their concatenation is the component's name).  The    *)
(*    component <<"/">> in first position marks an absolute path.          *)
(*  - A similarity score in [0,1] is kept in tenths: 5 stands for 0.5.     *)
(*  - A Python float quotient a / b is kept as the pair <<a, b>>.          *)
(*  - Model parameters are abstracted to the number of optimizer steps     *)
(*    that produced them.                                                  *)
(***************************************************************************)
EXTENDS Integers, Sequences, FiniteSets, TLC

\* ------------------------------------------------------------------ bounds
MaxEpochs == 2
MaxNumSave == 3
MaxDataset == 2
\* Cap on max_num_epochs * len(dataset), the samples one run trains on.
MaxSamples == 4
MaxTestCalls == 1

\* --------------------------------------------------------------- constants
\* The 0.5 threshold of test(), in tenths.
Half == 5
\* Width of the zero padding of the checkpoint's epoch tag.
ZFillWidth == 4

\* Scores the discriminator may return, in tenths: below, at and above 0.5.
Scores == {0, 5, 10}
BatchSizes == {1, 2}
\* Dataset names handed to the constructor: one per branch of _get_dataset
\* and one TU dataset name that no branch recognizes.
DataNames == {"MUTAG", "COLLAB", "ENZYMES"}
ModelTypes == {"gmnet"}
OutRoot == << <<"out">> >>
FileNames == { << <<"record.txt">> >>, << <<"/">>, <<"tmp">>, <<"record.txt">> >> }

VARIABLES
    pc,         \* position of the program
    conf,       \* self.conf (+ self.data_name)
    sets,       \* which of train_set / val_set the constructor assigned, and their size
    model,      \* self.model: [built, training, params]
    optimizer,  \* the Adam optimizer of train_test: [created, steps]
    error,      \* the exception that ended the constructor or train_test
    args,       \* train_test's arguments and derived paths
    dirs,       \* file system: existing directories
    logs,       \* file system: text files, path -> sequence of lines
    ckpts,      \* file system: checkpoint files, path -> saved parameters
    f,          \* the log file handle of train_test: [state, path, buf]
    loop,       \* train_test's and _train_epoch's loop variables
    tst,        \* test()'s frame: loader, counters, caller, result
    hist        \* history: what happened, for stating properties

vars == <<pc, conf, sets, model, optimizer, error, args, dirs, logs, ckpts, f, loop, tst, hist>>


\* ------------------------------------------------------------------ helpers
Min(a, b) == IF a < b THEN a ELSE b

\* os.path.join(a, b): an absolute second argument discards the first.
Join(a, b) == IF Len(b) > 0 /\ b[1] = <<"/">> THEN b ELSE a \o b

Parent(p) == SubSeq(p, 1, Len(p) - 1)

\* The directories os.makedirs(p) makes sure exist: p and all its ancestors.
Ancestors(p) == {SubSeq(p, 1, k) : k \in 1..Len(p)}

DigitChars == <<"0", "1", "2", "3", "4", "5", "6", "7", "8", "9">>

\* str(n) for n >= 0, as a sequence of digit characters.
RECURSIVE Str(_)
Str(n) == IF n < 10 THEN <<DigitChars[n + 1]>>
          ELSE Str(n \div 10) \o <<DigitChars[(n % 10) + 1]>>

\* s.zfill(w): pad with "0" on the left up to width w, never truncate.
RECURSIVE ZFill(_, _)
ZFill(s, w) == IF Len(s) >= w THEN s ELSE ZFill(<<"0">> \o s, w)

\* Mutant of CkptName: the epoch tag is not zero-padded.
CkptNameUnpadded(epoch) == Str(epoch) \o <<".pt">>

\* '{}.pt'.format(str(epoch).zfill(4))
CkptName(epoch) == ZFill(Str(epoch), ZFillWidth) \o <<".pt">>

\* os.path.join(model_dir, '{}.pt'.format(...))
CkptPath(model_dir, epoch) == Join(model_dir, <<CkptName(epoch)>>)

\* a / b of Python, kept exact as the pair <<a, b>>.
Frac(a, b) == <<a, b>>

\* Mutant of CountAbove: the comparison is >= 0.5.
CountAtOrAbove(out) == Cardinality({i \in DOMAIN out : out[i] >= Half})

\* (output.view(-1) > 0.5).long().sum().item() over one batch of scores
CountAbove(out) == Cardinality({i \in DOMAIN out : out[i] > Half})

\* (output.view(-1) < 0.5).long().sum().item() over one batch of scores
CountBelow(out) == Cardinality({i \in DOMAIN out : out[i] < Half})

\* The checkpoint condition of the epoch loop.
SaveCond(epoch, max_num_epochs, num_save) == epoch > max_num_epochs - num_save

\* One line of the text log.
HeaderLine(data_name, model_type) ==
    [kind |-> "header", name |-> data_name, model_type |-> model_type,
     epoch |-> 0, acc |-> <<0, 1>>, pos |-> <<0, 1>>, neg |-> <<0, 1>>]

EpochLine(epoch, res) ==
    [kind |-> "epoch", name |-> "", model_type |-> "",
     epoch |-> epoch, acc |-> res[1], pos |-> res[2], neg |-> res[3]]

\* _get_dataset: which sets get assigned, or the exception raised.  TUDataset
\* itself may fail to load (loads = FALSE); a name in neither list assigns
\* nothing, and reading self.train_set then raises AttributeError.
GetDataset(data_name, loads) ==
    IF ~loads
    THEN [err |-> "DatasetLoadError", train_set |-> "unset", val_set |-> "unset"]
    ELSE IF data_name \in {"NCI1", "MUTAG", "PROTEINS", "NCI109"}
    THEN [err |-> "none", train_set |-> "plain", val_set |-> "plain"]
    ELSE IF data_name \in {"COLLAB", "IMDB-BINARY"}
    THEN [err |-> "none", train_set |-> "degree", val_set |-> "degree"]
    ELSE [err |-> "AttributeError", train_set |-> "unset", val_set |-> "unset"]

\* ------------------------------------------------------- initial file system
RootDirs == { <<>>, << <<"/">> >>, << <<"/">>, <<"tmp">> >> }

PriorOutPath == << <<"out">>, <<"MUTAG">> >>
PriorModelDir == PriorOutPath \o << <<"gmnet">> >>
PriorLogPath == PriorOutPath \o << <<"record.txt">> >>
PriorCkptPath == PriorModelDir \o << <<"0", "0", "0", "1", ".pt">> >>
PriorLog == << HeaderLine("MUTAG", "gmnet"), EpochLine(0, <<Frac(1, 2), Frac(1, 1), Frac(0, 1)>>) >>

NoFiles == [p \in {} |-> <<>>]
NoCkpts == [p \in {} |-> 0]

NoEntry == [valid |-> FALSE, training |-> TRUE, params |-> 0, optimizer |-> [created |-> FALSE, steps |-> 0],
            logs |-> NoFiles, ckpts |-> NoCkpts]

Init ==
    /\ pc = "new"
    /\ conf = [max_num_epochs |-> 0, batch_size |-> 1, model_type |-> "", data_name |-> ""]
    /\ sets = [train_set |-> "unset", val_set |-> "unset", n |-> 0]
    /\ model = [built |-> FALSE, training |-> TRUE, params |-> 0]
    /\ optimizer = [created |-> FALSE, steps |-> 0]
    /\ error = "none"
    /\ args = [out_root_path |-> <<>>, num_save |-> 0, file_name |-> <<>>,
               out_path |-> <<>>, model_dir |-> <<>>, log_path |-> <<>>]
    /\ \E prior \in BOOLEAN :
         /\ dirs = IF prior THEN RootDirs \cup Ancestors(PriorModelDir) ELSE RootDirs
         /\ logs = IF prior THEN [p \in {PriorLogPath} |-> PriorLog] ELSE NoFiles
         /\ ckpts = IF prior THEN [p \in {PriorCkptPath} |-> 7] ELSE NoCkpts
    /\ f = [state |-> "closed", path |-> <<>>, buf |-> <<>>]
    /\ loop = [epoch |-> 0, remaining |-> 0]
    /\ tst = [n |-> 0, bs |-> 1, remaining |-> 0, num_correct |-> 0, num_pos_correct |-> 0,
              num_neg_correct |-> 0, caller |-> "none", retpc |-> "new",
              result |-> <<Frac(0, 1), Frac(0, 1), Frac(0, 1)>>]
    /\ hist = [logs0 |-> logs, ckpts0 |-> ckpts, trace |-> <<>>, opens |-> 0, closes |-> 0,
               testCalls |-> 0, failPc |-> "none", entry |-> NoEntry, exit |-> NoEntry,
               scored |-> 0, above |-> 0, below |-> 0]


\* ---------------------------------------------------------------- __init__
\* RunnerDiscriminator(data_root_path, data_name, max_num_epochs, batch_size,
\* ..., model_type, ...): conf, _get_dataset, then _get_model.  An exception
\* of _get_dataset leaves the constructor before the model is built.
Construct(data_name, max_num_epochs, batch_size, model_type, loads, n) ==
    /\ pc = "new"
    /\ conf' = [max_num_epochs |-> max_num_epochs, batch_size |-> batch_size,
                model_type |-> model_type, data_name |-> data_name]
    /\ LET ds == GetDataset(data_name, loads) IN
         IF ds.err # "none"
         THEN /\ pc' = "failed"
              /\ error' = ds.err
              /\ UNCHANGED <<sets, model>>
         ELSE /\ pc' = "idle"
              /\ sets' = [train_set |-> ds.train_set, val_set |-> ds.val_set, n |-> n]
              /\ model' = [built |-> TRUE, training |-> TRUE, params |-> 0]
              /\ UNCHANGED error
    /\ UNCHANGED <<optimizer, args, dirs, logs, ckpts, f, loop, tst, hist>>

\* ------------------------------------------------------------------- test
\* What a call of test(loader) starts from: the frame, and (history) the
\* state on entry; the state on exit is recorded likewise by TestReturn.
TestFrame(caller, retpc, n, bs) ==
    [n |-> n, bs |-> bs, remaining |-> 0, num_correct |-> 0, num_pos_correct |-> 0,
     num_neg_correct |-> 0, caller |-> caller, retpc |-> retpc, result |-> tst.result]

EntryState ==
    [valid |-> TRUE, training |-> model.training, params |-> model.params,
     optimizer |-> optimizer, logs |-> logs, ckpts |-> ckpts]

\* The user calls runner.test(loader) with a loader over the validation set.
CallTest(bs) ==
    /\ pc = "idle"
    /\ hist.testCalls < MaxTestCalls
    /\ pc' = "test_begin"
    /\ tst' = TestFrame("user", pc, sets.n, bs)
    /\ hist' = [hist EXCEPT !.testCalls = @ + 1, !.entry = EntryState, !.exit = NoEntry]
    /\ UNCHANGED <<conf, sets, model, optimizer, error, args, dirs, logs, ckpts, f, loop>>

\* self.model.eval(); the three counters start at 0; the loader starts a pass.
TestBegin ==
    /\ pc = "test_begin"
    /\ pc' = "test_loop"
    /\ model' = [model EXCEPT !.training = FALSE]
    /\ tst' = [tst EXCEPT !.remaining = tst.n, !.num_correct = 0,
                          !.num_pos_correct = 0, !.num_neg_correct = 0]
    /\ hist' = [hist EXCEPT !.scored = 0, !.above = 0, !.below = 0]
    /\ UNCHANGED <<conf, sets, optimizer, error, args, dirs, logs, ckpts, f, loop>>

\* Mutant of TestBatchStep: the batch also takes an optimizer step, as a
\* batch of _train_epoch does.
TestBatchStepWithUpdate(pos_out, neg_out) ==
    /\ pc' = pc
    /\ tst' = [tst EXCEPT !.remaining = @ - Len(pos_out),
                          !.num_correct = @ + CountAbove(pos_out) + CountBelow(neg_out),
                          !.num_pos_correct = @ + CountAbove(pos_out),
                          !.num_neg_correct = @ + CountBelow(neg_out)]
    /\ model' = [model EXCEPT !.params = @ + 1]
    /\ optimizer' = [optimizer EXCEPT !.steps = @ + 1]
    /\ hist' = [hist EXCEPT !.scored = @ + Len(pos_out)]
    /\ UNCHANGED <<conf, sets, error, args, dirs, logs, ckpts, f, loop>>

\* One batch of the loop of test(): the model scores the anchor-positive and
\* the anchor-negative pairs of the batch (pos_out, neg_out).
TestBatchStep(pos_out, neg_out) ==
    /\ pc' = pc
    /\ tst' = [tst EXCEPT !.remaining = @ - Len(pos_out),
                          !.num_correct = @ + CountAbove(pos_out) + CountBelow(neg_out),
                          !.num_pos_correct = @ + CountAbove(pos_out),
                          !.num_neg_correct = @ + CountBelow(neg_out)]
    /\ hist' = [hist EXCEPT
                  !.scored = @ + Len(pos_out),
                  !.above = @ + Cardinality({i \in DOMAIN pos_out : Half < pos_out[i]}),
                  !.below = @ + Cardinality({i \in DOMAIN neg_out : Half > neg_out[i]}),
                  !.trace = IF tst.caller = "train_test"
                            THEN Append(@, [kind |-> "validate", epoch |-> loop.epoch,
                                            params |-> model.params])
                            ELSE @]
    /\ UNCHANGED <<conf, sets, model, optimizer, error, args, dirs, logs, ckpts, f, loop>>

TestBatch ==
    /\ pc = "test_loop"
    /\ tst.remaining > 0
    /\ LET k == Min(tst.bs, tst.remaining) IN
         \E pos_out \in [1..k -> Scores], neg_out \in [1..k -> Scores] :
            TestBatchStep(pos_out, neg_out)

\* Mutant of TestResult: all three counts are divided by 2 * len(dataset).
TestResultAllHalved(num_correct, num_pos_correct, num_neg_correct, n) ==
    <<Frac(num_correct, 2 * n), Frac(num_pos_correct, 2 * n), Frac(num_neg_correct, 2 * n)>>

\* The return value of test().
TestResult(num_correct, num_pos_correct, num_neg_correct, n) ==
    <<Frac(num_correct, 2 * n), Frac(num_pos_correct, n), Frac(num_neg_correct, n)>>

\* The loader is exhausted: test() returns to its caller (in train_test, to
\* the print and the log append that follow).
TestReturn ==
    /\ pc = "test_loop"
    /\ tst.remaining = 0
    /\ pc' = tst.retpc
    /\ tst' = [tst EXCEPT !.result = TestResult(tst.num_correct, tst.num_pos_correct,
                                                 tst.num_neg_correct, tst.n),
                          !.caller = "none"]
    /\ hist' = [hist EXCEPT !.exit = EntryState]
    /\ UNCHANGED <<conf, sets, model, optimizer, error, args, dirs, logs, ckpts, f, loop>>


\* -------------------------------------------------------------- train_test
\* train_test(out_root_path, num_save, file_name) is called: the model moves
\* to the device and the three paths are computed.
CallTrainTest(out_root_path, num_save, file_name) ==
    /\ pc = "idle"
    /\ pc' = "mkdirs"
    /\ LET out_path == Join(out_root_path, << <<conf.data_name>> >>) IN
         args' = [out_root_path |-> out_root_path, num_save |-> num_save,
                  file_name |-> file_name,
                  out_path |-> out_path,
                  model_dir |-> Join(out_path, << <<conf.model_type>> >>),
                  log_path |-> Join(out_path, file_name)]
    /\ UNCHANGED <<conf, sets, model, optimizer, error, dirs, logs, ckpts, f, loop, tst, hist>>

\* os.makedirs(out_path) and os.mkdir(model_dir), each unless it is a directory.
MakeDirs ==
    /\ pc = "mkdirs"
    /\ pc' = "header_open"
    /\ dirs' = dirs \cup Ancestors(args.out_path) \cup {args.model_dir}
    /\ UNCHANGED <<conf, sets, model, optimizer, error, args, logs, ckpts, f, loop, tst, hist>>

\* Mutant of OpenAppend: the file is opened with mode 'w', which truncates it.
OpenTruncate(path, next) ==
    /\ Parent(path) \in dirs
    /\ pc' = next
    /\ logs' = [q \in DOMAIN logs \cup {path} |-> IF q = path THEN <<>> ELSE logs[q]]
    /\ f' = [state |-> "open", path |-> path, buf |-> <<>>]
    /\ hist' = [hist EXCEPT !.opens = @ + 1]
    /\ UNCHANGED <<conf, sets, model, optimizer, error, args, dirs, ckpts, loop, tst>>

\* f = open(path, 'a'): the file is created empty when missing and nothing
\* of it is truncated; the directory must exist.
OpenAppend(path, next) ==
    /\ Parent(path) \in dirs
    /\ pc' = next
    /\ logs' = IF path \in DOMAIN logs THEN logs
               ELSE [q \in DOMAIN logs \cup {path} |-> IF q = path THEN <<>> ELSE logs[q]]
    /\ f' = [state |-> "open", path |-> path, buf |-> <<>>]
    /\ hist' = [hist EXCEPT !.opens = @ + 1]
    /\ UNCHANGED <<conf, sets, model, optimizer, error, args, dirs, ckpts, loop, tst>>

\* f.write(line): the line goes to the handle's buffer.
WriteLine(line, next) ==
    /\ f.state = "open"
    /\ pc' = next
    /\ f' = [f EXCEPT !.buf = Append(@, line)]
    /\ UNCHANGED <<conf, sets, model, optimizer, error, args, dirs, logs, ckpts, loop, tst, hist>>

\* f.close(): the buffer is appended to the file and the handle is closed.
FlushClose ==
    /\ f.state = "open"
    /\ logs' = [logs EXCEPT ![f.path] = @ \o f.buf]
    /\ f' = [f EXCEPT !.state = "closed", !.buf = <<>>]

HeaderOpen ==
    /\ pc = "header_open"
    /\ OpenAppend(args.log_path, "header_write")

HeaderWrite ==
    /\ pc = "header_write"
    /\ WriteLine(HeaderLine(conf.data_name, conf.model_type), "header_close")

HeaderClose ==
    /\ pc = "header_close"
    /\ pc' = "loaders"
    /\ FlushClose
    /\ hist' = [hist EXCEPT !.closes = @ + 1]
    /\ UNCHANGED <<conf, sets, model, optimizer, error, args, dirs, ckpts, loop, tst>>

\* The two DataLoaders and the Adam optimizer are created; the loop starts.
MakeLoaders ==
    /\ pc = "loaders"
    /\ pc' = "loop_head"
    /\ optimizer' = [created |-> TRUE, steps |-> 0]
    /\ loop' = [epoch |-> 0, remaining |-> 0]
    /\ UNCHANGED <<conf, sets, model, error, args, dirs, logs, ckpts, f, tst, hist>>

\* for epoch in range(max_num_epochs): either the next epoch starts with
\* _train_epoch (self.model.train(), a fresh pass of the train loader), or
\* the loop and train_test end.
LoopHead ==
    /\ pc = "loop_head"
    /\ IF loop.epoch < conf.max_num_epochs
       THEN /\ pc' = "train_loop"
            /\ model' = [model EXCEPT !.training = TRUE]
            /\ loop' = [loop EXCEPT !.remaining = sets.n]
       ELSE /\ pc' = "done"
            /\ UNCHANGED <<model, loop>>
    /\ UNCHANGED <<conf, sets, optimizer, error, args, dirs, logs, ckpts, f, tst, hist>>

\* One batch of _train_epoch: zero_grad, the two forward passes, the loss,
\* backward and optimizer.step(), which replaces the parameters.
TrainBatch ==
    /\ pc = "train_loop"
    /\ loop.remaining > 0
    /\ pc' = pc
    /\ loop' = [loop EXCEPT !.remaining = @ - Min(conf.batch_size, @)]
    /\ model' = [model EXCEPT !.params = @ + 1]
    /\ optimizer' = [optimizer EXCEPT !.steps = @ + 1]
    /\ hist' = [hist EXCEPT !.trace = Append(@, [kind |-> "train", epoch |-> loop.epoch,
                                                  params |-> model.params + 1])]
    /\ UNCHANGED <<conf, sets, error, args, dirs, logs, ckpts, f, tst>>

\* Mutant of SaveCheckpoint: the state saved is the one from before the
\* epoch's last update step.
SaveStaleCheckpoint(path) ==
    /\ Parent(path) \in dirs
    /\ LET written == [q \in DOMAIN ckpts \cup {path} |->
                         IF q = path THEN model.params - 1 ELSE ckpts[q]] IN
         /\ ckpts' = written
         /\ hist' = [hist EXCEPT !.entry = [EntryState EXCEPT !.ckpts = written],
                                 !.exit = NoEntry,
                                 !.trace = Append(@, [kind |-> "save", epoch |-> loop.epoch,
                                                      params |-> model.params - 1])]

\* torch.save(self.model.state_dict(), path): the file is created or replaced.
SaveCheckpoint(path) ==
    /\ Parent(path) \in dirs
    /\ LET written == [q \in DOMAIN ckpts \cup {path} |->
                         IF q = path THEN model.params ELSE ckpts[q]] IN
         /\ ckpts' = written
         /\ hist' = [hist EXCEPT !.entry = [EntryState EXCEPT !.ckpts = written],
                                 !.exit = NoEntry,
                                 !.trace = Append(@, [kind |-> "save", epoch |-> loop.epoch,
                                                      params |-> model.params])]

\* The train loader is exhausted: the checkpoint of the epoch is written if
\* the epoch passes the condition, and test(val_loader) is called.
AfterTrain ==
    /\ pc = "train_loop"
    /\ loop.remaining = 0
    /\ pc' = "test_begin"
    /\ IF SaveCond(loop.epoch, conf.max_num_epochs, args.num_save)
       THEN SaveCheckpoint(CkptPath(args.model_dir, loop.epoch))
       ELSE /\ hist' = [hist EXCEPT !.entry = EntryState, !.exit = NoEntry]
            /\ UNCHANGED ckpts
    /\ tst' = TestFrame("train_test", "log_open", sets.n, conf.batch_size)
    /\ UNCHANGED <<conf, sets, model, optimizer, error, args, dirs, logs, f, loop>>

LogOpen ==
    /\ pc = "log_open"
    /\ OpenAppend(args.log_path, "log_write")

LogWrite ==
    /\ pc = "log_write"
    /\ WriteLine(EpochLine(loop.epoch, tst.result), "log_close")

\* Mutant of LogClose: the handle of the epoch's record is never closed.
LogCloseForgotten ==
    /\ pc = "log_close"
    /\ pc' = "loop_head"
    /\ loop' = [loop EXCEPT !.epoch = @ + 1]
    /\ hist' = [hist EXCEPT !.trace = Append(@, [kind |-> "log", epoch |-> loop.epoch,
                                                 params |-> model.params])]
    /\ UNCHANGED <<conf, sets, model, optimizer, error, args, dirs, logs, ckpts, f, tst>>

\* f.close() of the epoch's record; the for loop moves to the next epoch.
LogClose ==
    /\ pc = "log_close"
    /\ pc' = "loop_head"
    /\ FlushClose
    /\ loop' = [loop EXCEPT !.epoch = @ + 1]
    /\ hist' = [hist EXCEPT !.closes = @ + 1,
                            !.trace = Append(@, [kind |-> "log", epoch |-> loop.epoch,
                                                 params |-> model.params])]
    /\ UNCHANGED <<conf, sets, model, optimizer, error, args, dirs, ckpts, tst>>

\* The positions of train_test, test() called by it included.
InTrainTest ==
    \/ pc \in {"mkdirs", "header_open", "header_write", "header_close", "loaders",
               "train_loop", "log_open", "log_write", "log_close"}
    \/ pc \in {"test_begin", "test_loop"} /\ tst.caller = "train_test"

\* Mutant of Raise: the exception is caught and the loop goes on with the
\* next epoch.
RaiseCaught ==
    /\ InTrainTest
    /\ pc' = "loop_head"
    /\ loop' = [loop EXCEPT !.epoch = @ + 1]
    /\ error' = "Exception"
    /\ hist' = [hist EXCEPT !.failPc = pc]
    /\ UNCHANGED <<conf, sets, model, optimizer, args, dirs, logs, ckpts, f, tst>>

\* Any step of train_test may raise (the numerical backend, the file
\* system): nothing catches it, train_test ends with the exception and what
\* is on disk stays.  A line still in the handle's buffer is not written.
Raise ==
    /\ InTrainTest
    /\ pc' = "aborted"
    /\ error' = "Exception"
    /\ hist' = [hist EXCEPT !.failPc = pc]
    /\ UNCHANGED <<conf, sets, model, optimizer, args, dirs, logs, ckpts, f, loop, tst>>

\* The constructor, with its arguments drawn from the input sets.
New ==
    \E data_name \in DataNames, max_num_epochs \in 0..MaxEpochs, batch_size \in BatchSizes,
       model_type \in ModelTypes, loads \in BOOLEAN, n \in 1..MaxDataset :
       /\ max_num_epochs * n <= MaxSamples
       /\ Construct(data_name, max_num_epochs, batch_size, model_type, loads, n)

\* A runner is constructed and train_test is called on it.
Next ==
    \/ New
    \/ \E num_save \in 0..MaxNumSave, file_name \in FileNames :
          CallTrainTest(OutRoot, num_save, file_name)
    \/ MakeDirs
    \/ HeaderOpen
    \/ HeaderWrite
    \/ HeaderClose
    \/ MakeLoaders
    \/ LoopHead
    \/ TrainBatch
    \/ AfterTrain
    \/ TestBegin
    \/ TestBatch
    \/ TestReturn
    \/ LogOpen
    \/ LogWrite
    \/ LogClose
    \/ Raise

Spec == Init /\ [][Next]_vars

\* A runner is constructed and test is called on it, up to MaxTestCalls times.
NextEval ==
    \/ New
    \/ \E bs \in BatchSizes : CallTest(bs)
    \/ TestBegin
    \/ TestBatch
    \/ TestReturn

SpecEval == Init /\ [][NextEval]_vars


\* ------------------------------------------------- vocabulary of the claims
Called == pc \notin {"new", "failed", "idle"}

\* The log file of the current train_test call: now, before the call, and
\* what the call has added.
LogNow == IF args.log_path \in DOMAIN logs THEN logs[args.log_path] ELSE <<>>
PreLog == IF args.log_path \in DOMAIN hist.logs0 THEN hist.logs0[args.log_path] ELSE <<>>
Appended == SubSeq(LogNow, Len(PreLog) + 1, Len(LogNow))

ChangedLogs == {p \in DOMAIN logs : p \notin DOMAIN hist.logs0 \/ logs[p] # hist.logs0[p]}
ChangedCkpts == {p \in DOMAIN ckpts : p \notin DOMAIN hist.ckpts0 \/ ckpts[p] # hist.ckpts0[p]}

Events(kind) == {i \in DOMAIN hist.trace : hist.trace[i].kind = kind}
EventsOf(kind, e) == {i \in Events(kind) : hist.trace[i].epoch = e}
SavedEpochs == {hist.trace[i].epoch : i \in Events("save")}

\* The log added by the call so far is the header followed by the records of
\* epochs 0 .. k-1, in this order.
HeaderThenRecords(k) ==
    /\ Len(Appended) = k + 1
    /\ Appended[1] = HeaderLine(conf.data_name, conf.model_type)
    /\ \A i \in 2..(k + 1) : Appended[i].kind = "epoch" /\ Appended[i].epoch = i - 2

\* e written with four decimal digits.
FourDigits(e) == [i \in 1..4 |-> DigitChars[((e \div (10 ^ (4 - i))) % 10) + 1]]

Relative(path) == Len(path) = 0 \/ path[1] # <<"/">>

\* <outputRoot>/<datasetName>/<modelType> and
\* <outputRoot>/<datasetName>/<logFileName>, an absolute logFileName standing
\* for itself.
ModelDirAsSpecified == args.out_root_path \o << <<conf.data_name>>, <<conf.model_type>> >>
LogPathAsSpecified ==
    IF Relative(args.file_name)
    THEN args.out_root_path \o << <<conf.data_name>> >> \o args.file_name
    ELSE args.file_name

\* A call of test() has returned and no other has started since.
TestReturned == hist.exit.valid /\ tst.caller = "none"

\* The fraction fr has the value v.
FracIs(fr, v) == fr[1] = v * fr[2]

\* ------------------------------------------------------------------- claims

\* C1: a complete run of train_test writes a checkpoint for exactly the epochs
\* e with max_num_epochs - num_save <= e < max_num_epochs (clipped at 0), the
\* last num_save epochs, and for no other epoch.
C1_LastNumSaveEpochs ==
    pc = "done" =>
        SavedEpochs = {e \in 0..(conf.max_num_epochs - 1) : e >= conf.max_num_epochs - args.num_save}

\* C2: whatever the scores and however the validation set of size N >= 1 is
\* split into batches, test() returns ((P + Q) / (2N), P / N, Q / N), P the
\* number of anchor-positive pairs scored strictly above 0.5 and Q the number
\* of anchor-negative pairs scored strictly below 0.5; every pair of the set
\* is scored once.
C2_TestReturnsAccuracies ==
    TestReturned =>
        /\ hist.scored = tst.n
        /\ tst.result = << <<hist.above + hist.below, 2 * tst.n>>,
                           <<hist.above, tst.n>>, <<hist.below, tst.n>> >>

C2_Witness ==
    /\ TestReturned
    /\ tst.n = 2 /\ tst.bs = 1
    /\ hist.above = 1 /\ hist.below = 0
    /\ tst.result[1] = <<1, 4>>

\* C3 as stated: with a perfect classifier over a validation set of size N,
\* test() returns overall accuracy 1.0 and positive and negative accuracy
\* each equal to N.
C3_PosNegEqualSize ==
    (TestReturned /\ hist.above = tst.n /\ hist.below = tst.n) =>
        /\ FracIs(tst.result[1], 1)
        /\ FracIs(tst.result[2], tst.n)
        /\ FracIs(tst.result[3], tst.n)

\* C3 amended: with a perfect classifier over a validation set of size N,
\* test() returns overall accuracy 1.0 and positive and negative accuracy
\* each equal to N / N = 1.0.
C3_PerfectClassifier ==
    (TestReturned /\ hist.above = tst.n /\ hist.below = tst.n) =>
        /\ FracIs(tst.result[1], 1)
        /\ FracIs(tst.result[2], 1)
        /\ FracIs(tst.result[3], 1)

C3_Witness ==
    /\ TestReturned
    /\ tst.n = 2 /\ tst.bs = 1
    /\ hist.above = 2 /\ hist.below = 2
    /\ tst.result = << <<4, 4>>, <<2, 2>>, <<2, 2>> >>

\* C4 as stated: a call of test() leaves the model parameters, the optimizer
\* state, the model's train/eval mode flag, the log files and the checkpoint
\* files as they were when it was called.
C4_TestChangesNothing ==
    hist.exit.valid => hist.exit = hist.entry

\* C4 amended: a call of test() leaves the model parameters, the optimizer
\* state, the log files and the checkpoint files as they were when it was
\* called, and leaves the model in eval mode whatever its mode was.
C4_TestFrame ==
    hist.exit.valid =>
        /\ hist.exit.params = hist.entry.params
        /\ hist.exit.optimizer = hist.entry.optimizer
        /\ hist.exit.logs = hist.entry.logs
        /\ hist.exit.ckpts = hist.entry.ckpts
        /\ ~hist.exit.training

C4_Witness ==
    /\ hist.exit.valid
    /\ tst.caller = "none"
    /\ hist.entry.training /\ ~model.training
    /\ model.params = 2 /\ optimizer.steps = 2
    /\ ChangedCkpts # {}
    /\ PreLog # <<>>

\* C5: constructing the runner with a dataset name that is not recognized
\* fails with a ConfigurationError, and no model is built (stated here for
\* the case that the TU dataset of that name itself loads).
C5_ConfigurationError ==
    (/\ pc # "new"
     /\ conf.data_name \notin {"NCI1", "MUTAG", "PROTEINS", "NCI109", "COLLAB", "IMDB-BINARY"}
     /\ error # "DatasetLoadError") =>
        /\ pc = "failed"
        /\ error = "ConfigurationError"
        /\ ~model.built

\* C6: train_test appends to the log file exactly one header line, before any
\* training step, then one record per epoch with the epoch indices 0, 1, ...
\* in increasing order, E records in a complete run; what the log file held
\* before the run stays in place, and no other text file changes.
C6_HeaderThenEpochRecords ==
    Called =>
        /\ Len(LogNow) >= Len(PreLog)
        /\ SubSeq(LogNow, 1, Len(PreLog)) = PreLog
        /\ \A i \in 1..Len(Appended) :
              IF i = 1 THEN Appended[i] = HeaderLine(conf.data_name, conf.model_type)
              ELSE Appended[i].kind = "epoch" /\ Appended[i].epoch = i - 2
        /\ hist.trace # <<>> => Len(Appended) >= 1
        /\ ChangedLogs \subseteq {args.log_path}
        /\ pc = "done" => HeaderThenRecords(conf.max_num_epochs)

C6_Witness ==
    /\ pc = "done"
    /\ conf.max_num_epochs = 2
    /\ Len(PreLog) = 2
    /\ Len(LogNow) = 5

\* C7 as stated: every checkpoint train_test writes for epoch e is at
\* <outputRoot>/<datasetName>/<modelType>/<e zero-padded>.ckpt and nowhere
\* else, and the log is at <outputRoot>/<datasetName>/<logFileName>.
C7_CkptLayout ==
    Called =>
        /\ \A e \in SavedEpochs :
              ModelDirAsSpecified \o <<FourDigits(e) \o <<".ckpt">> >> \in DOMAIN ckpts
        /\ ChangedCkpts \subseteq
              {ModelDirAsSpecified \o <<FourDigits(e) \o <<".ckpt">> >> : e \in SavedEpochs}
        /\ ChangedLogs \subseteq {LogPathAsSpecified}
        /\ hist.closes > 0 => ChangedLogs = {LogPathAsSpecified}

\* C7 amended: every checkpoint train_test writes for epoch e is at
\* <outputRoot>/<datasetName>/<modelType>/<e zero-padded to four digits>.pt
\* and nowhere else, and the log is at <outputRoot>/<datasetName>/<logFileName>.
C7_PtLayout ==
    Called =>
        /\ \A e \in SavedEpochs :
              ModelDirAsSpecified \o <<FourDigits(e) \o <<".pt">> >> \in DOMAIN ckpts
        /\ ChangedCkpts \subseteq
              {ModelDirAsSpecified \o <<FourDigits(e) \o <<".pt">> >> : e \in SavedEpochs}
        /\ ChangedLogs \subseteq {LogPathAsSpecified}
        /\ hist.closes > 0 => ChangedLogs = {LogPathAsSpecified}

C7_Witness ==
    /\ pc = "done"
    /\ SavedEpochs = {0, 1}
    /\ Cardinality(ChangedCkpts) = 2
    /\ Relative(args.file_name)
    /\ ChangedLogs = {LogPathAsSpecified}


\* The number of batches a DataLoader makes of n samples (drop_last is off).
Batches(n, bs) == (n + bs - 1) \div bs

\* The parameters after the last update step of epoch e.
ParamsAfter(e) ==
    LET last == CHOOSE i \in EventsOf("train", e) : \A j \in EventsOf("train", e) : j <= i
    IN  hist.trace[last].params

\* C8: within train_test the steps of each epoch e come in the order: all
\* training batches of e, the checkpoint of e (at most one), the validation
\* of e, the log record of e; epoch e+1 starts only after the log record of
\* e; and the parameters saved for e and those evaluated for e are the
\* parameters after the last update step of e.
C8_EpochOrder ==
    LET tr == hist.trace IN
    /\ tr # <<>> => tr[1].kind = "train" /\ tr[1].epoch = 0
    /\ \A i \in 1..(Len(tr) - 1) :
          LET a == tr[i]  b == tr[i + 1] IN
          \/ /\ b.epoch = a.epoch
             /\ \/ a.kind = "train" /\ b.kind \in {"train", "save", "validate"}
                \/ a.kind = "save" /\ b.kind = "validate"
                \/ a.kind = "validate" /\ b.kind \in {"validate", "log"}
          \/ /\ b.epoch = a.epoch + 1
             /\ a.kind = "log" /\ b.kind = "train"
    /\ \A i \in DOMAIN tr :
          /\ tr[i].kind # "train" =>
                /\ Cardinality(EventsOf("train", tr[i].epoch)) = Batches(sets.n, conf.batch_size)
                /\ tr[i].params = ParamsAfter(tr[i].epoch)
          /\ tr[i].kind = "log" =>
                Cardinality(EventsOf("validate", tr[i].epoch)) = Batches(sets.n, conf.batch_size)
          /\ tr[i].kind = "save" =>
                ckpts[CkptPath(args.model_dir, tr[i].epoch)] = ParamsAfter(tr[i].epoch)

C8_Witness ==
    /\ pc = "done"
    /\ conf.max_num_epochs = 2
    /\ sets.n = 2 /\ conf.batch_size = 1
    /\ SavedEpochs = {0, 1}
    /\ Len(hist.trace) = 12

\* train_test failed inside the epoch loop.
FailedInLoop ==
    /\ pc = "aborted"
    /\ hist.failPc \in {"train_loop", "test_begin", "test_loop", "log_open", "log_write", "log_close"}

\* C9: when a step of train_test fails during epoch k, the error is not
\* caught or retried: the run has stopped, nothing written before is rolled
\* back, and the disk holds the header, the log records of the epochs
\* 0 .. k-1 and no other, and the checkpoints written up to the failure.
C9_FailureLeavesPartialState ==
    /\ hist.failPc # "none" => pc = "aborted" /\ error # "none"
    /\ pc = "aborted" => ~ENABLED Next
    /\ FailedInLoop =>
          /\ SubSeq(LogNow, 1, Len(PreLog)) = PreLog
          /\ HeaderThenRecords(loop.epoch)
          /\ \A i \in DOMAIN hist.trace : hist.trace[i].epoch <= loop.epoch
          /\ \A i \in Events("save") :
                /\ CkptPath(args.model_dir, hist.trace[i].epoch) \in DOMAIN ckpts
                /\ ckpts[CkptPath(args.model_dir, hist.trace[i].epoch)] = hist.trace[i].params
          /\ ChangedCkpts \subseteq {CkptPath(args.model_dir, e) : e \in SavedEpochs}
          /\ \A p \in DOMAIN hist.ckpts0 : p \in DOMAIN ckpts
          /\ \A p \in DOMAIN hist.logs0 : p \in DOMAIN logs

C9_Witness ==
    /\ FailedInLoop
    /\ hist.failPc = "log_close"
    /\ loop.epoch = 1
    /\ SavedEpochs = {0, 1}
    /\ Len(PreLog) = 2
    /\ Len(LogNow) = 4

\* C10: the log file is not held open across the loop: the handle is closed
\* whenever a training batch, a checkpoint write or a validation pass is in
\* progress, and the file is opened, appended to and closed once for the
\* header and once per epoch.
C10_LogHandleClosed ==
    /\ pc \in {"loaders", "loop_head", "train_loop", "test_begin", "test_loop", "done"} =>
          /\ f.state = "closed"
          /\ hist.opens = hist.closes
    /\ (Called /\ pc # "aborted") =>
          /\ hist.opens = hist.closes + (IF f.state = "open" THEN 1 ELSE 0)
          /\ hist.closes = Len(Appended)
          /\ pc \in {"train_loop", "test_begin", "test_loop", "log_open"} =>
                hist.closes = loop.epoch + 1
    /\ pc = "done" =>
          /\ hist.opens = conf.max_num_epochs + 1
          /\ hist.closes = conf.max_num_epochs + 1

C10_Witness ==
    /\ pc = "test_loop"
    /\ loop.epoch = 1
    /\ tst.remaining = 1
    /\ f.state = "closed"
    /\ hist.opens = 2 /\ hist.closes = 2

====
